---- MODULE Spec2Model ----
(***************************************************************************)
(* Model of the network-parameterized Bitcoin address codec                *)
(* (archive/bitcoins/src/enc/encoder.rs) and of the big-endian hex helpers *)
(* of the marked-digest layer (core/src/hashes/mod.rs).                    *)
(*                                                                         *)
(* Bytes are integers 0..255, byte strings are sequences of bytes, text is *)
(* a sequence of one-character strings.  A fallible result is a record     *)
(* [ok, val, err]; an aborted call (a Rust panic) is the value Panic.      *)
(***************************************************************************)
EXTENDS Integers, Sequences, FiniteSets, TLC

(***************************************************************************)
(* Bounds of the explored input space.                                     *)
(***************************************************************************)
\* payload samples are generated from the seeds 0..MaxSeed
MaxSeed == 3
\* single-character mutations are applied at the first and last
\* MaxMutEdge positions of an address string
MaxMutEdge == 4

(***************************************************************************)
(* Results.                                                                *)
(***************************************************************************)
NoVal == <<>>

Ok(v) == [ok |-> TRUE, val |-> v, err |-> "none"]

Err(e) == [ok |-> FALSE, val |-> NoVal, err |-> e]

\* the outcome of a call that aborted in unwrap()
Panic == [ok |-> FALSE, val |-> NoVal, err |-> "panic"]

(***************************************************************************)
(* Sequence helpers.                                                       *)
(***************************************************************************)
Rev(s) == [i \in 1..Len(s) |-> s[Len(s) + 1 - i]]

Range(s) == {s[i] : i \in 1..Len(s)}

IndexOf(alphabet, c) == CHOOSE i \in 1..Len(alphabet) : alphabet[i] = c

StartsWith(s, p) == Len(s) >= Len(p) /\ SubSeq(s, 1, Len(p)) = p

\* number of leading elements of s equal to z
RECURSIVE LeadingCount(_, _)
LeadingCount(s, z) ==
    IF s = <<>> \/ Head(s) # z THEN 0 ELSE 1 + LeadingCount(Tail(s), z)

(***************************************************************************)
(* Radix conversion on little-endian digit sequences, as the base-58       *)
(* encoder and decoder carry it out: digits * mul + carry in base `base`.  *)
(* The accumulators of the folds of this module are never negative; the    *)
(* test `acc < 0` in a fold only makes TLC evaluate the running value at   *)
(* every step instead of nesting unevaluated steps.                        *)
(***************************************************************************)
RECURSIVE MulAdd(_, _, _, _)
MulAdd(ds, mul, carry, base) ==
    IF ds = <<>>
    THEN IF carry = 0 THEN <<>>
         ELSE <<carry % base>> \o MulAdd(<<>>, mul, carry \div base, base)
    ELSE LET c == Head(ds) * mul + carry
         IN  <<c % base>> \o MulAdd(Tail(ds), mul, c \div base, base)

\* big-endian digits in base `from` to big-endian digits in base `to`, without
\* leading zero digits
RECURSIVE ConvertLE(_, _, _, _)
ConvertLE(ds, acc, from, to) ==
    IF ds = <<>> \/ Len(acc) < 0 THEN acc
    ELSE ConvertLE(Tail(ds), MulAdd(acc, from, Head(ds), to), from, to)

Radix(ds, from, to) == Rev(ConvertLE(ds, <<>>, from, to))

(***************************************************************************)
(* Characters.  ASCII lists the printable characters from code 32 to 126   *)
(* (the grave accent, code 96, is written "<grave>").                      *)
(***************************************************************************)
ASCII ==
  <<
    " ", "!", "\"", "#", "$", "%", "&", "'", "(", ")", "*", "+", ",", "-", ".", "/",
    "0", "1", "2", "3", "4", "5", "6", "7", "8", "9", ":", ";", "<", "=", ">", "?",
    "@", "A", "B", "C", "D", "E", "F", "G", "H", "I", "J", "K", "L", "M", "N", "O",
    "P", "Q", "R", "S", "T", "U", "V", "W", "X", "Y", "Z", "[", "\\", "]", "^", "_",
    "<grave>", "a", "b", "c", "d", "e", "f", "g", "h", "i", "j", "k", "l", "m", "n", "o",
    "p", "q", "r", "s", "t", "u", "v", "w", "x", "y", "z", "{", "|", "}", "~"
  >>

Ord(c) == IndexOf(ASCII, c) + 31

Chr(n) == ASCII[n - 31]

IsUpper(c) == Ord(c) \in 65..90

IsLower(c) == Ord(c) \in 97..122

Lower(c) == IF IsUpper(c) THEN Chr(Ord(c) + 32) ELSE c

LowerText(t) == [i \in 1..Len(t) |-> Lower(t[i])]

(***************************************************************************)
(* The checksum digest of base58check.  The code uses the first four bytes *)
(* of SHA-256(SHA-256(data)); the model keeps what the codec relies on, a  *)
(* fixed function from byte strings to four bytes, and replaces SHA-256 by *)
(* four modular polynomial accumulators.                                   *)
(***************************************************************************)
RECURSIVE Mix(_, _, _)
Mix(bytes, acc, mul) ==
    IF acc < 0 \/ bytes = <<>> THEN acc
    ELSE Mix(Tail(bytes), (acc * mul + Head(bytes) + 1) % 65521, mul)

Checksum4(bytes) ==
    << Mix(bytes, 1, 31) % 256, Mix(bytes, 7, 131) % 256,
       Mix(bytes, 13, 257) % 256, Mix(bytes, 17, 1031) % 256 >>

(***************************************************************************)
(* Base58Check.                                                            *)
(***************************************************************************)
B58_ALPHABET ==
  <<
    "1", "2", "3", "4", "5", "6", "7", "8", "9", "A", "B", "C", "D", "E", "F",
    "G", "H", "J", "K", "L", "M", "N", "P", "Q", "R", "S", "T", "U", "V", "W",
    "X", "Y", "Z", "a", "b", "c", "d", "e", "f", "g", "h", "i", "j", "k", "m",
    "n", "o", "p", "q", "r", "s", "t", "u", "v", "w", "x", "y", "z"
  >>

\* version || payload || checksum, in base 58, one "1" per leading zero byte
encode_base58(version, payload) ==
    LET body   == <<version>> \o payload
        buf    == body \o Checksum4(body)
        zeros  == LeadingCount(buf, 0)
        digits == Radix(buf, 256, 58)
    IN  [i \in 1..zeros |-> "1"]
            \o [i \in 1..Len(digits) |-> B58_ALPHABET[digits[i] + 1]]

decode_base58(version, text) ==
    IF \E i \in 1..Len(text) : text[i] \notin Range(B58_ALPHABET)
    THEN Err("B58InvalidChar")
    ELSE LET digits == [i \in 1..Len(text) |-> IndexOf(B58_ALPHABET, text[i]) - 1]
             zeros  == LeadingCount(text, "1")
             buf    == [i \in 1..zeros |-> 0] \o Radix(digits, 58, 256)
             n      == Len(buf)
         IN  IF n < 5 THEN Err("B58TooShort")
             ELSE IF buf[1] # version THEN Err("B58WrongVersion")
             ELSE IF Checksum4(SubSeq(buf, 1, n - 4)) # SubSeq(buf, n - 3, n)
                  THEN Err("B58InvalidChecksum")
             ELSE Ok(SubSeq(buf, 2, n - 4))

(***************************************************************************)
(* Bech32 (BIP173).                                                        *)
(***************************************************************************)
B32_CHARSET ==
  <<
    "q", "p", "z", "r", "y", "9", "x", "8", "g", "f", "2", "t", "v", "d", "w", "0",
    "s", "3", "j", "n", "5", "4", "k", "h", "c", "e", "6", "m", "u", "a", "7", "l"
  >>

\* 0x3b6a57b2, 0x26508e6d, 0x1ea119fa, 0x3d4233dd, 0x2a1462b3
B32_GEN == <<996825010, 642813549, 513874426, 1027748829, 705979059>>

Bit(v, i) == (v \div (2 ^ i)) % 2

Xor5 ==
    [a \in 0..31, b \in 0..31 |->
        ((Bit(a, 0) + Bit(b, 0)) % 2) + 2 * ((Bit(a, 1) + Bit(b, 1)) % 2)
        + 4 * ((Bit(a, 2) + Bit(b, 2)) % 2) + 8 * ((Bit(a, 3) + Bit(b, 3)) % 2)
        + 16 * ((Bit(a, 4) + Bit(b, 4)) % 2)]

\* exclusive or of two 30-bit values, five bits at a time
RECURSIVE XorLimbs(_, _, _)
XorLimbs(a, b, n) ==
    IF n = 0 THEN 0
    ELSE Xor5[a % 32, b % 32] + 32 * XorLimbs(a \div 32, b \div 32, n - 1)

Xor30(a, b) == XorLimbs(a, b, 6)

\* the generators selected by the bits of the top five bits t, combined
RECURSIVE GenOf(_, _)
GenOf(t, i) ==
    IF i = 0 THEN 0
    ELSE Xor30(IF Bit(t, i - 1) = 1 THEN B32_GEN[i] ELSE 0, GenOf(t, i - 1))

GenXor == [t \in 0..31 |-> GenOf(t, 5)]

RECURSIVE polymod(_, _)
polymod(values, chk) ==
    IF chk < 0 \/ values = <<>> THEN chk
    ELSE polymod(Tail(values),
                 Xor30((chk % 33554432) * 32 + Head(values),
                       GenXor[chk \div 33554432]))

hrp_expand(hrp) ==
    [i \in 1..Len(hrp) |-> Ord(hrp[i]) \div 32] \o <<0>>
        \o [i \in 1..Len(hrp) |-> Ord(hrp[i]) % 32]

create_checksum(hrp, data) ==
    LET pm == Xor30(polymod(hrp_expand(hrp) \o data \o <<0, 0, 0, 0, 0, 0>>, 1), 1)
    IN  [i \in 1..6 |-> (pm \div (32 ^ (6 - i))) % 32]

verify_checksum(hrp, data) == polymod(hrp_expand(hrp) \o data, 1) = 1

\* the bits of a sequence of `w`-bit groups, most significant first
BitsOf(groups, w) ==
    [k \in 1..(w * Len(groups)) |->
        Bit(groups[((k - 1) \div w) + 1], (w - 1) - ((k - 1) % w))]

\* the j-th `w`-bit group of a bit sequence, zero bits past its end
GroupAt(bits, j, w) ==
    LET b(k) == IF k <= Len(bits) THEN bits[k] ELSE 0
        RECURSIVE val(_)
        val(i) == IF i = 0 THEN 0 ELSE 2 * val(i - 1) + b(w * (j - 1) + i)
    IN  val(w)

\* 8-bit bytes to 5-bit groups, the last group padded with zero bits
to_base32(bytes) ==
    LET bits == BitsOf(bytes, 8)
    IN  [j \in 1..((Len(bits) + 4) \div 5) |-> GroupAt(bits, j, 5)]

\* 5-bit groups to 8-bit bytes, the incomplete last byte dropped
from_base32(groups) ==
    LET bits == BitsOf(groups, 5)
    IN  [j \in 1..(Len(bits) \div 8) |-> GroupAt(bits, j, 8)]

b32_encode(hrp, data) ==
    LET all == data \o create_checksum(hrp, data)
    IN  hrp \o <<"1">> \o [i \in 1..Len(all) |-> B32_CHARSET[all[i] + 1]]

\* position of the last "1" of the text, 0 when there is none
LastSeparator(text) ==
    IF \E i \in 1..Len(text) : text[i] = "1"
    THEN CHOOSE i \in 1..Len(text) :
            text[i] = "1" /\ \A j \in (i + 1)..Len(text) : text[j] # "1"
    ELSE 0

\* Ok([hrp, data]) with the checksum removed, or the bech32 error
b32_decode(text) ==
    LET p == LastSeparator(text)
    IN  IF p = 0 THEN Err("B32MissingSeparator")
        ELSE IF p = 1 \/ Len(text) - p < 6 THEN Err("B32InvalidLength")
        ELSE IF (\E i \in 1..Len(text) : IsUpper(text[i]))
                /\ (\E i \in 1..Len(text) : IsLower(text[i]))
             THEN Err("B32MixedCase")
        ELSE LET hrp  == LowerText(SubSeq(text, 1, p - 1))
                 tail == LowerText(SubSeq(text, p + 1, Len(text)))
             IN  IF \E i \in 1..Len(tail) : tail[i] \notin Range(B32_CHARSET)
                 THEN Err("B32InvalidChar")
                 ELSE LET data == [i \in 1..Len(tail) |->
                                      IndexOf(B32_CHARSET, tail[i]) - 1]
                      IN  IF ~verify_checksum(hrp, data)
                          THEN Err("B32InvalidChecksum")
                          ELSE Ok([hrp |-> hrp,
                                   data |-> SubSeq(data, 1, Len(data) - 6)])

\* a witness program (version byte, push length, program) to bech32: the
\* version is the first 5-bit group, the program is regrouped
encode_bech32(hrp, v) ==
    IF Len(v) < 2 \/ v[1] > 31 THEN Err("B32InvalidData")
    ELSE Ok(b32_encode(hrp, <<v[1]>> \o to_base32(SubSeq(v, 3, Len(v)))))

\* bech32 text to the witness program bytes: version byte, push length and
\* program
decode_bech32(expected_hrp, text) ==
    LET r == b32_decode(text)
    IN  IF ~r.ok THEN r
        ELSE IF r.val.hrp # expected_hrp THEN Err("WrongHrp")
        ELSE IF r.val.data = <<>> THEN Err("B32InvalidLength")
        ELSE LET payload == from_base32(Tail(r.val.data))
             IN  Ok(<<Head(r.val.data), Len(payload)>> \o payload)

(***************************************************************************)
(* NetworkParams: the three parameter sets of the encoder.                 *)
(***************************************************************************)
Networks == {"Main", "Test", "Sig"}

HRP(net) ==
    CASE net = "Main" -> <<"b", "c">>
      [] net = "Test" -> <<"t", "b">>
      [] net = "Sig"  -> <<"s", "b">>

\* the testnet pubkey-hash version copied from mainnet
PKH_VERSION_TestAsMain(net) ==
    CASE net = "Main" -> 0
      [] net = "Test" -> 0
      [] net = "Sig"  -> 125

\* 0x00, 0x6f, 0x7d
PKH_VERSION(net) ==
    CASE net = "Main" -> 0
      [] net = "Test" -> 111
      [] net = "Sig"  -> 125

\* 0x05, 0xc4, 0x57
SH_VERSION(net) ==
    CASE net = "Main" -> 5
      [] net = "Test" -> 196
      [] net = "Sig"  -> 87

(***************************************************************************)
(* Address: a variant tag around a string.  Building the record directly   *)
(* is the unchecked construction the enum allows.                          *)
(***************************************************************************)
Variants == {"Pkh", "Sh", "Wpkh", "Wsh"}

Address(variant, s) == [variant |-> variant, s |-> s]

as_string(addr) == addr.s

(***************************************************************************)
(* The script classifier: the type of a script and its payload.            *)
(***************************************************************************)
ScriptType(type, payload) == [type |-> type, payload |-> payload]

standard_type(s) ==
    IF Len(s) = 25 /\ SubSeq(s, 1, 3) = <<118, 169, 20>>
                   /\ SubSeq(s, 24, 25) = <<136, 172>>
    THEN ScriptType("Pkh", SubSeq(s, 4, 23))
    ELSE IF Len(s) = 23 /\ SubSeq(s, 1, 2) = <<169, 20>> /\ s[23] = 135
    THEN ScriptType("Sh", SubSeq(s, 3, 22))
    ELSE IF Len(s) = 22 /\ SubSeq(s, 1, 2) = <<0, 20>>
    THEN ScriptType("Wpkh", SubSeq(s, 3, 22))
    ELSE IF Len(s) = 34 /\ SubSeq(s, 1, 2) = <<0, 32>>
    THEN ScriptType("Wsh", SubSeq(s, 3, 34))
    ELSE IF Len(s) >= 2 /\ Len(s) <= 77 /\ s[1] = 106 /\ s[2] = Len(s) - 2
    THEN ScriptType("OpReturn", SubSeq(s, 3, Len(s)))
    ELSE ScriptType("NonStandard", <<>>)

(***************************************************************************)
(* BitcoinEncoder<P>.                                                      *)
(***************************************************************************)
\* encode_address with the OP_RETURN arm reporting an unknown script type
encode_address_OpReturnUnknown(net, s) ==
    LET t == standard_type(s)
    IN  CASE t.type = "Pkh" ->
               Ok(Address("Pkh", encode_base58(PKH_VERSION(net), t.payload)))
          [] t.type = "Sh" ->
               Ok(Address("Sh", encode_base58(SH_VERSION(net), t.payload)))
          [] t.type = "Wsh" ->
               LET r == encode_bech32(HRP(net), s)
               IN  IF r.ok THEN Ok(Address("Wsh", r.val)) ELSE r
          [] t.type = "Wpkh" ->
               LET r == encode_bech32(HRP(net), s)
               IN  IF r.ok THEN Ok(Address("Wpkh", r.val)) ELSE r
          [] OTHER -> Err("UnknownScriptType")

\* encode_address with the non-standard arm merged into the OP_RETURN arm
encode_address_NonStandardNullData(net, s) ==
    LET t == standard_type(s)
    IN  CASE t.type = "Pkh" ->
               Ok(Address("Pkh", encode_base58(PKH_VERSION(net), t.payload)))
          [] t.type = "Sh" ->
               Ok(Address("Sh", encode_base58(SH_VERSION(net), t.payload)))
          [] t.type = "Wsh" ->
               LET r == encode_bech32(HRP(net), s)
               IN  IF r.ok THEN Ok(Address("Wsh", r.val)) ELSE r
          [] t.type = "Wpkh" ->
               LET r == encode_bech32(HRP(net), s)
               IN  IF r.ok THEN Ok(Address("Wpkh", r.val)) ELSE r
          [] OTHER -> Err("NullDataScript")

encode_address(net, s) ==
    LET t == standard_type(s)
    IN  CASE t.type = "Pkh" ->
               Ok(Address("Pkh", encode_base58(PKH_VERSION(net), t.payload)))
          [] t.type = "Sh" ->
               Ok(Address("Sh", encode_base58(SH_VERSION(net), t.payload)))
          [] t.type = "Wsh" ->
               LET r == encode_bech32(HRP(net), s)
               IN  IF r.ok THEN Ok(Address("Wsh", r.val)) ELSE r
          [] t.type = "Wpkh" ->
               LET r == encode_bech32(HRP(net), s)
               IN  IF r.ok THEN Ok(Address("Wpkh", r.val)) ELSE r
          [] t.type = "OpReturn" -> Err("NullDataScript")
          [] OTHER -> Err("UnknownScriptType")

\* decode_address with the two trailing opcodes of the Pkh template swapped
decode_address_SwappedTail(net, addr) ==
    CASE addr.variant = "Pkh" ->
           LET r == decode_base58(PKH_VERSION(net), addr.s)
           IN  IF r.ok THEN Ok(<<118, 169, 20>> \o r.val \o <<172, 136>>)
               ELSE Panic
      [] addr.variant = "Sh" ->
           LET r == decode_base58(SH_VERSION(net), addr.s)
           IN  IF r.ok THEN Ok(<<169, 20>> \o r.val \o <<135>>) ELSE Panic
      [] OTHER ->
           LET r == decode_bech32(HRP(net), addr.s)
           IN  IF r.ok THEN Ok(r.val) ELSE Panic

\* Ok(script) is the returned script; a failed decode is unwrapped and aborts
decode_address(net, addr) ==
    CASE addr.variant = "Pkh" ->
           LET r == decode_base58(PKH_VERSION(net), addr.s)
           IN  IF r.ok THEN Ok(<<118, 169, 20>> \o r.val \o <<136, 172>>)
               ELSE Panic
      [] addr.variant = "Sh" ->
           LET r == decode_base58(SH_VERSION(net), addr.s)
           IN  IF r.ok THEN Ok(<<169, 20>> \o r.val \o <<135>>) ELSE Panic
      [] OTHER ->
           LET r == decode_bech32(HRP(net), addr.s)
           IN  IF r.ok THEN Ok(r.val) ELSE Panic

\* string_to_address wrapping witness data of any length as Wpkh
string_to_address_AnyLengthWpkh(net, s) ==
    IF StartsWith(s, HRP(net))
    THEN LET result == decode_bech32(HRP(net), s)
         IN  IF ~result.ok THEN result
             ELSE IF Len(result.val) = 22 THEN Ok(Address("Wpkh", s))
             ELSE IF Len(result.val) = 34 THEN Ok(Address("Wsh", s))
             ELSE Ok(Address("Wpkh", s))
    ELSE IF decode_base58(PKH_VERSION(net), s).ok THEN Ok(Address("Pkh", s))
    ELSE IF decode_base58(SH_VERSION(net), s).ok THEN Ok(Address("Sh", s))
    ELSE Err("UnknownScriptType")

\* string_to_address matching on the program lengths 20 and 32
string_to_address_ProgramLengths(net, s) ==
    IF StartsWith(s, HRP(net))
    THEN LET result == decode_bech32(HRP(net), s)
         IN  IF ~result.ok THEN result
             ELSE IF Len(result.val) = 20 THEN Ok(Address("Wpkh", s))
             ELSE IF Len(result.val) = 32 THEN Ok(Address("Wsh", s))
             ELSE Err("UnknownScriptType")
    ELSE IF decode_base58(PKH_VERSION(net), s).ok THEN Ok(Address("Pkh", s))
    ELSE IF decode_base58(SH_VERSION(net), s).ok THEN Ok(Address("Sh", s))
    ELSE Err("UnknownScriptType")

\* string_to_address reporting a bech32 failure as an unknown script type
string_to_address_DropsBech32Error(net, s) ==
    IF StartsWith(s, HRP(net))
    THEN LET result == decode_bech32(HRP(net), s)
         IN  IF ~result.ok THEN Err("UnknownScriptType")
             ELSE IF Len(result.val) = 22 THEN Ok(Address("Wpkh", s))
             ELSE IF Len(result.val) = 34 THEN Ok(Address("Wsh", s))
             ELSE Err("UnknownScriptType")
    ELSE IF decode_base58(PKH_VERSION(net), s).ok THEN Ok(Address("Pkh", s))
    ELSE IF decode_base58(SH_VERSION(net), s).ok THEN Ok(Address("Sh", s))
    ELSE Err("UnknownScriptType")

string_to_address(net, s) ==
    IF StartsWith(s, HRP(net))
    THEN LET result == decode_bech32(HRP(net), s)
         IN  IF ~result.ok THEN result
             ELSE IF Len(result.val) = 22 THEN Ok(Address("Wpkh", s))
             ELSE IF Len(result.val) = 34 THEN Ok(Address("Wsh", s))
             ELSE Err("UnknownScriptType")
    ELSE IF decode_base58(PKH_VERSION(net), s).ok THEN Ok(Address("Pkh", s))
    ELSE IF decode_base58(SH_VERSION(net), s).ok THEN Ok(Address("Sh", s))
    ELSE Err("UnknownScriptType")

(***************************************************************************)
(* Marked digests: a mark and the digest bytes.                            *)
(***************************************************************************)
Marks == {"Hash160Digest", "Hash256Digest"}

Digest(mark, bytes) == [mark |-> mark, bytes |-> bytes]

\* the output size of the marked hash function: RIPEMD-160 and SHA-256
SizeOf(mark) == IF mark = "Hash160Digest" THEN 20 ELSE 32

size(d) == SizeOf(d.mark)

HEX_DIGITS ==
    <<"0", "1", "2", "3", "4", "5", "6", "7", "8", "9", "a", "b", "c", "d", "e", "f">>

serialize_hex(d) ==
    [k \in 1..(2 * Len(d.bytes)) |->
        LET b == d.bytes[(k + 1) \div 2]
        IN  HEX_DIGITS[(IF k % 2 = 1 THEN b \div 16 ELSE b % 16) + 1]]

\* hex text (either case) to a digest of the mark's size
deserialize_hex(mark, text) ==
    IF Len(text) % 2 = 1 THEN Err("HexOddLength")
    ELSE IF \E i \in 1..Len(text) : Lower(text[i]) \notin Range(HEX_DIGITS)
    THEN Err("HexInvalidChar")
    ELSE IF Len(text) # 2 * SizeOf(mark) THEN Err("HexWrongLength")
    ELSE LET v(i) == IndexOf(HEX_DIGITS, Lower(text[i])) - 1
         IN  Ok(Digest(mark, [j \in 1..SizeOf(mark) |->
                                 16 * v(2 * j - 1) + v(2 * j)]))

\* reversed without the reversal
reversed_Copy(d) ==
    LET digest_bytes == d.bytes
    IN  Digest(d.mark, SubSeq(digest_bytes, 1, size(d)))

reversed(d) ==
    LET digest_bytes == Rev(d.bytes)
    IN  Digest(d.mark, SubSeq(digest_bytes, 1, size(d)))

from_be_hex(mark, be) ==
    LET r == deserialize_hex(mark, be)
    IN  IF r.ok THEN Ok(reversed(r.val)) ELSE r

to_be_hex(d) == serialize_hex(reversed(d))

(***************************************************************************)
(* The inputs the callers draw from.                                       *)
(***************************************************************************)
Seeds == 0..MaxSeed

\* a payload of `len` bytes; seed 3 starts with 0xbd, seed 0 with 0x00
SampleBytes(seed, len) ==
    [i \in 1..len |-> (seed * 63 + (i - 1) * (seed + 1)) % 256]

PkhScript(h) == <<118, 169, 20>> \o h \o <<136, 172>>

ShScript(h) == <<169, 20>> \o h \o <<135>>

WitnessScript(version, program) == <<version, Len(program)>> \o program

OpReturnScript(data) == <<106, Len(data)>> \o data

StandardScripts ==
    UNION {{PkhScript(SampleBytes(k, 20)), ShScript(SampleBytes(k, 20)),
            WitnessScript(0, SampleBytes(k, 20)),
            WitnessScript(0, SampleBytes(k, 32))} : k \in Seeds}

OpReturnScripts ==
    UNION {{OpReturnScript(SampleBytes(k, 0)), OpReturnScript(SampleBytes(k, 4)),
            OpReturnScript(SampleBytes(k, 20)),
            OpReturnScript(SampleBytes(k, 32))} : k \in Seeds}

\* wrong leading or trailing opcode, wrong payload length, witness version
\* other than 0, junk, raw multisig
OtherScripts ==
    UNION {{ <<169, 20>> \o SampleBytes(k, 20) \o <<137>>,
             <<170, 20>> \o SampleBytes(k, 20) \o <<135>>,
             <<118, 169, 20>> \o SampleBytes(k, 20) \o <<136, 173>>,
             <<119, 169, 20>> \o SampleBytes(k, 20) \o <<136, 172>>,
             <<118, 169, 19>> \o SampleBytes(k, 19) \o <<136, 172>>,
             <<169, 21>> \o SampleBytes(k, 21) \o <<135>>,
             WitnessScript(1, SampleBytes(k, 20)),
             WitnessScript(1, SampleBytes(k, 32)),
             WitnessScript(0, SampleBytes(k, 21)),
             <<0, 20>> \o SampleBytes(k, 19),
             <<82, 33>> \o SampleBytes(k, 33) \o <<33>> \o SampleBytes(k, 33)
                 \o <<82, 174>> } : k \in Seeds}
    \cup { <<>>, <<0, 17, 34, 51, 68>>,
           <<222, 173, 190, 239, 222, 173, 190, 239>> }

Scripts == StandardScripts \cup OpReturnScripts \cup OtherScripts

AllHRPs == {HRP(n) : n \in Networks}

AllVersions == {PKH_VERSION(n) : n \in Networks} \cup {SH_VERSION(n) : n \in Networks}

\* text that is no address at all
JunkTexts ==
    { <<"h", "e", "l", "l", "o">>,
      <<"t", "h", "i", "s", " ", "i", "s", "n", "'", "t", " ", "a", " ", "r", "e", "a", "l", " ", "a", "d", "d", "r", "e", "s", "s">>,
      \* valid bech32 under "bc", 11 bytes of witness data
      <<"b", "c", "1", "0", "p", "u", "8", "s", "7", "r", "c", "0", "p", "u", "8", "s", "7", "r", "c", "0", "p", "u", "t", "t", "4", "4", "a", "m">> }
    \cup UNION {{ h \o <<"h", "e", "l", "l", "o">>,
                  h \o <<"1", "q", "q", "q", "q", "q", "q", "q">> } : h \in AllHRPs}

\* checksum-valid bech32 texts: each prefix, witness versions 0 and 1,
\* programs that fit Wpkh or Wsh and programs that do not
ProgramLens == {18, 20, 30, 32, 33}

Bech32Texts ==
    {b32_encode(h, <<v>> \o to_base32(SampleBytes(k, n))) :
        h \in AllHRPs, v \in {0, 1}, n \in ProgramLens, k \in Seeds}

\* checksum-valid base58check texts under each version byte
Base58Texts ==
    {encode_base58(v, SampleBytes(k, n)) :
        v \in AllVersions, n \in {20, 10}, k \in Seeds}

Texts == JunkTexts \cup Bech32Texts \cup Base58Texts

\* replacement characters of a single-character mutation
MutChars == {"q", "z", "3", "0", "b", "A"}

Substitute(t, pos, c) == [i \in 1..Len(t) |-> IF i = pos THEN c ELSE t[i]]

MutPositions(t) ==
    {i \in 1..Len(t) : i <= MaxMutEdge \/ i > Len(t) - MaxMutEdge}

Digests == {Digest(m, SampleBytes(k, SizeOf(m))) : m \in Marks, k \in Seeds}

Upper(c) == IF IsLower(c) THEN Chr(Ord(c) - 32) ELSE c

UpperText(t) == [i \in 1..Len(t) |-> Upper(t[i])]

\* hex texts: digests in lower and upper case, texts of a wrong length, an
\* odd length, and with a character that is no hex digit
HexTexts ==
    UNION {{ serialize_hex(d), UpperText(serialize_hex(d)),
             Tail(serialize_hex(d)), Tail(Tail(serialize_hex(d))),
             serialize_hex(d) \o <<"0", "0">>,
             Substitute(serialize_hex(d), 2, "g") } : d \in Digests}

(***************************************************************************)
(* The callers.  Every call is independent: a caller on some network       *)
(* makes one call and may feed its result to a next call.                  *)
(***************************************************************************)
VARIABLES
    pc,        \* what the caller did last
    net,       \* the network P of BitcoinEncoder<P>
    other,     \* a second network, for a string carried across networks
    script,    \* the ScriptPubkey given to encode_address
    text,      \* the string given to string_to_address or wrapped unchecked
    mutpos,    \* the position of a mutated character, 0 when none
    wrapped,   \* an Address built directly from a string
    encoded,   \* the result of encode_address
    decoded,   \* the result of decode_address
    parsed,    \* the result of string_to_address
    digest,    \* a marked digest
    hex,       \* a hex text
    back,      \* the result of from_be_hex
    derived,   \* the result of reversed or to_be_hex
    calls      \* the codec calls string_to_address has made, in order

vars == <<pc, net, other, script, text, mutpos, wrapped, encoded, decoded,
          parsed, digest, hex, back, derived, calls>>

Unset == [ok |-> FALSE, val |-> NoVal, err |-> "unset"]

Init ==
    /\ pc = "start"
    /\ net \in Networks
    /\ other = "none"
    /\ script = <<>>
    /\ text = <<>>
    /\ mutpos = 0
    /\ wrapped = Address("none", <<>>)
    /\ encoded = Unset
    /\ decoded = Unset
    /\ parsed = Unset
    /\ digest = Digest("none", <<>>)
    /\ hex = <<>>
    /\ back = Unset
    /\ derived = <<>>
    /\ calls = <<>>

\* encode_address(s)
EncodeAddress ==
    /\ pc = "start"
    /\ \E s \in Scripts :
        /\ script' = s
        /\ encoded' = encode_address(net, s)
    /\ pc' = "encoded"
    /\ UNCHANGED <<net, other, text, mutpos, wrapped, decoded, parsed,
                   digest, hex, back, derived, calls>>

\* decode_address of the address encode_address returned
DecodeAddress ==
    /\ pc = "encoded"
    /\ encoded.ok
    /\ decoded' = decode_address(net, encoded.val)
    /\ pc' = "decoded"
    /\ UNCHANGED <<net, other, script, text, mutpos, wrapped, encoded,
                   parsed, digest, hex, back, derived, calls>>

\* string_to_address of the string of the address encode_address returned
ParseEncoded ==
    /\ pc = "encoded"
    /\ encoded.ok
    /\ text' = as_string(encoded.val)
    /\ parsed' = string_to_address(net, as_string(encoded.val))
    /\ pc' = "reparsed"
    /\ UNCHANGED <<net, other, script, mutpos, wrapped, encoded, decoded,
                   digest, hex, back, derived, calls>>

\* string_to_address, under another network, of the string of the address
\* encode_address returned
CrossParse ==
    /\ pc = "encoded"
    /\ encoded.ok
    /\ \E b \in Networks \ {net} :
        /\ other' = b
        /\ parsed' = string_to_address(b, as_string(encoded.val))
    /\ text' = as_string(encoded.val)
    /\ pc' = "crossed"
    /\ UNCHANGED <<net, script, mutpos, wrapped, encoded, decoded, digest,
                   hex, back, derived, calls>>

\* string_to_address of an encoded address with one character replaced
ParseMutated ==
    /\ pc = "encoded"
    /\ encoded.ok
    /\ \E i \in MutPositions(as_string(encoded.val)), c \in MutChars :
        /\ c # as_string(encoded.val)[i]
        /\ mutpos' = i
        /\ text' = Substitute(as_string(encoded.val), i, c)
        /\ parsed' = string_to_address(net, Substitute(as_string(encoded.val), i, c))
    /\ pc' = "mutated"
    /\ UNCHANGED <<net, other, script, wrapped, encoded, decoded, digest,
                   hex, back, derived, calls>>

\* string_to_address(string)
StringToAddress ==
    /\ pc = "start"
    /\ \E t \in Texts :
        /\ text' = t
        /\ parsed' = string_to_address(net, t)
    /\ pc' = "parsed"
    /\ UNCHANGED <<net, other, script, mutpos, wrapped, encoded, decoded,
                   digest, hex, back, derived, calls>>

\* decode_address of an Address built directly from a string
DecodeUnchecked ==
    /\ pc = "start"
    /\ \E t \in Texts, v \in Variants :
        /\ text' = t
        /\ wrapped' = Address(v, t)
        /\ decoded' = decode_address(net, Address(v, t))
    /\ pc' = "unchecked"
    /\ UNCHANGED <<net, other, script, mutpos, encoded, parsed, digest, hex,
                   back, derived, calls>>

\* d.reversed()
Reversed ==
    /\ pc = "start"
    /\ \E d \in Digests :
        /\ digest' = d
        /\ derived' = reversed(d).bytes
    /\ pc' = "reversed"
    /\ UNCHANGED <<net, other, script, text, mutpos, wrapped, encoded,
                   decoded, parsed, hex, back, calls>>

\* d.to_be_hex()
ToBeHex ==
    /\ pc = "start"
    /\ \E d \in Digests :
        /\ digest' = d
        /\ hex' = to_be_hex(d)
    /\ pc' = "hexed"
    /\ UNCHANGED <<net, other, script, text, mutpos, wrapped, encoded,
                   decoded, parsed, back, derived, calls>>

\* from_be_hex of the text to_be_hex returned
FromBeHexBack ==
    /\ pc = "hexed"
    /\ back' = from_be_hex(digest.mark, hex)
    /\ pc' = "unhexed"
    /\ UNCHANGED <<net, other, script, text, mutpos, wrapped, encoded,
                   decoded, parsed, digest, hex, derived, calls>>

\* from_be_hex(be)
FromBeHex ==
    /\ pc = "start"
    /\ \E m \in Marks, h \in HexTexts :
        /\ digest' = Digest(m, <<>>)
        /\ hex' = h
        /\ back' = from_be_hex(m, h)
    /\ pc' = "fromhex"
    /\ UNCHANGED <<net, other, script, text, mutpos, wrapped, encoded,
                   decoded, parsed, derived, calls>>

\* to_be_hex of the digest from_be_hex returned
ToBeHexBack ==
    /\ pc = "fromhex"
    /\ back.ok
    /\ derived' = to_be_hex(back.val)
    /\ pc' = "rehexed"
    /\ UNCHANGED <<net, other, script, text, mutpos, wrapped, encoded,
                   decoded, parsed, digest, hex, back, calls>>

(***************************************************************************)
(* string_to_address statement by statement, with the codec calls it makes *)
(* recorded in `calls`.                                                    *)
(***************************************************************************)
\* the dispatch without the prefix test: base58check is tried first
StaDispatch_Base58First ==
    /\ pc = "start"
    /\ \E t \in Texts :
        /\ text' = t
        /\ pc' = "sta_pkh"
    /\ UNCHANGED <<net, other, script, mutpos, wrapped, encoded, decoded,
                   parsed, digest, hex, back, derived, calls>>

\* let s = string.to_owned(); if s.starts_with(P::HRP) ... else ...
StaDispatch ==
    /\ pc = "start"
    /\ \E t \in Texts :
        /\ text' = t
        /\ pc' = IF StartsWith(t, HRP(net)) THEN "sta_bech32" ELSE "sta_pkh"
    /\ UNCHANGED <<net, other, script, mutpos, wrapped, encoded, decoded,
                   parsed, digest, hex, back, derived, calls>>

\* let result = decode_bech32(P::HRP, &s)?; match result.len() ...
StaBech32 ==
    /\ pc = "sta_bech32"
    /\ calls' = Append(calls, "decode_bech32")
    /\ LET result == decode_bech32(HRP(net), text)
       IN  parsed' = IF ~result.ok THEN result
                     ELSE IF Len(result.val) = 22 THEN Ok(Address("Wpkh", text))
                     ELSE IF Len(result.val) = 34 THEN Ok(Address("Wsh", text))
                     ELSE Err("UnknownScriptType")
    /\ pc' = "sta_done"
    /\ UNCHANGED <<net, other, script, text, mutpos, wrapped, encoded,
                   decoded, digest, hex, back, derived>>

\* else if decode_base58(P::PKH_VERSION, &s).is_ok() { Ok(Address::Pkh(s)) }
StaPkh ==
    /\ pc = "sta_pkh"
    /\ calls' = Append(calls, "decode_base58_pkh")
    /\ IF decode_base58(PKH_VERSION(net), text).ok
       THEN parsed' = Ok(Address("Pkh", text)) /\ pc' = "sta_done"
       ELSE parsed' = parsed /\ pc' = "sta_sh"
    /\ UNCHANGED <<net, other, script, text, mutpos, wrapped, encoded,
                   decoded, digest, hex, back, derived>>

\* else if decode_base58(P::SH_VERSION, &s).is_ok() { Ok(Address::Sh(s)) }
\* else { Err(EncodingError::UnknownScriptType) }
StaSh ==
    /\ pc = "sta_sh"
    /\ calls' = Append(calls, "decode_base58_sh")
    /\ parsed' = IF decode_base58(SH_VERSION(net), text).ok
                 THEN Ok(Address("Sh", text))
                 ELSE Err("UnknownScriptType")
    /\ pc' = "sta_done"
    /\ UNCHANGED <<net, other, script, text, mutpos, wrapped, encoded,
                   decoded, digest, hex, back, derived>>

\* decode_address(&a) of the Address a that string_to_address returned
DecodeParsed ==
    /\ pc = "parsed"
    /\ parsed.ok
    /\ decoded' = decode_address(net, parsed.val)
    /\ pc' = "parsed_decoded"
    /\ UNCHANGED <<net, other, script, text, mutpos, wrapped, encoded,
                   parsed, digest, hex, back, derived, calls>>

\* encode_address(&script) of the script that decode_address returned
ReEncode ==
    /\ pc = "parsed_decoded"
    /\ decoded.ok
    /\ encoded' = encode_address(net, decoded.val)
    /\ pc' = "reencoded"
    /\ UNCHANGED <<net, other, script, text, mutpos, wrapped, decoded,
                   parsed, digest, hex, back, derived, calls>>

Next ==
    \/ EncodeAddress
    \/ DecodeAddress
    \/ ParseEncoded
    \/ CrossParse
    \/ ParseMutated
    \/ StringToAddress
    \/ DecodeUnchecked
    \/ Reversed
    \/ ToBeHex
    \/ FromBeHexBack
    \/ FromBeHex
    \/ ToBeHexBack
    \/ StaDispatch
    \/ StaBech32
    \/ StaPkh
    \/ StaSh
    \/ DecodeParsed
    \/ ReEncode

Spec == Init /\ [][Next]_vars

(***************************************************************************)
(* Properties.                                                             *)
(***************************************************************************)
IsOk(r, v) == r.ok /\ r.val = v

IsErr(r, e) == ~r.ok /\ r.err = e

TypeOf(s) == standard_type(s).type

\* the caller holds the result of encode_address(script)
Encoded == pc \in {"encoded", "decoded", "reparsed", "crossed", "mutated"}

\* C1: for each network and every script classified Pkh, Sh, Wpkh or Wsh,
\* encode_address succeeds and decode_address of the address it returns gives
\* back the script byte for byte: 25 bytes for Pkh, 23 for Sh, the witness
\* program bytes for Wpkh and Wsh.
C1_RoundTrip ==
    /\ (Encoded /\ TypeOf(script) \in Variants) =>
            (encoded.ok /\ encoded.val.variant = TypeOf(script))
    /\ pc = "decoded" =>
            /\ IsOk(decoded, script)
            /\ TypeOf(script) = "Pkh" => Len(decoded.val) = 25
            /\ TypeOf(script) = "Sh" => Len(decoded.val) = 23

C1_Witness ==
    /\ pc = "decoded"
    /\ TypeOf(script) = "Pkh"
    /\ net = "Sig"
    /\ decoded.ok

\* C4: an address string that encode_address produced under one network is
\* rejected under every other network: string_to_address does not return an
\* Address, and decoding it with the other network's pkh version, sh version
\* or HRP fails.
C4_CrossNetwork ==
    pc = "crossed" =>
        /\ ~parsed.ok
        /\ ~decode_base58(PKH_VERSION(other), text).ok
        /\ ~decode_base58(SH_VERSION(other), text).ok
        /\ ~decode_bech32(HRP(other), text).ok

C4_Witness ==
    /\ pc = "crossed"
    /\ net = "Main"
    /\ other = "Test"
    /\ TypeOf(script) = "Pkh"
    /\ ~parsed.ok

\* C5: encode_address of a script classified OpReturn returns the
\* data-carrier error NullDataScript, whatever the payload and the network.
C5_OpReturn ==
    (Encoded /\ TypeOf(script) = "OpReturn") => IsErr(encoded, "NullDataScript")

C5_Witness ==
    /\ pc = "encoded"
    /\ TypeOf(script) = "OpReturn"
    /\ Len(script) = 22
    /\ ~encoded.ok

\* C6: encode_address of a script that matches none of the Pkh, Sh, Wpkh,
\* Wsh and OpReturn templates returns UnknownScriptType.
C6_NonStandard ==
    (Encoded /\ TypeOf(script) = "NonStandard") =>
        IsErr(encoded, "UnknownScriptType")

C6_Witness ==
    /\ pc = "encoded"
    /\ TypeOf(script) = "NonStandard"
    /\ Len(script) = 34
    /\ script[1] = 1
    /\ ~encoded.ok

\* C2: string_to_address of a valid address string of the network (the
\* string of an address encode_address produced under it) returns the
\* Address of the matching variant holding exactly that string.
C2_ParsesValidAddress ==
    pc = "reparsed" =>
        (parsed.ok /\ parsed.val = Address(TypeOf(script), as_string(encoded.val)))

\* C3: decode_address never aborts; a failed base58check or bech32 decode is
\* reported as an error value.
C3_DecodeNeverAborts ==
    pc \in {"unchecked", "decoded"} => decoded.err # "panic"

\* the text is an address of the network: base58check under its pkh or sh
\* version, or bech32 under its HRP with a Wpkh or Wsh witness program
IsAddressOf(n, t) ==
    \/ decode_base58(PKH_VERSION(n), t).ok
    \/ decode_base58(SH_VERSION(n), t).ok
    \/ LET r == decode_bech32(HRP(n), t) IN r.ok /\ Len(r.val) \in {22, 34}

\* C7 as stated: string_to_address rejects every text that is not an address
\* of the network with UnknownScriptType.
C7_AlwaysUnknownScriptType ==
    (pc = "parsed" /\ ~IsAddressOf(net, text)) =>
        IsErr(parsed, "UnknownScriptType")

\* C7 amended: text without the HRP prefix that is base58check-valid under
\* neither version, and text that is checksum-valid bech32 under the HRP with
\* witness data fitting neither Wpkh nor Wsh, are rejected with
\* UnknownScriptType; text with the HRP prefix that fails the bech32 decode
\* is rejected with the bech32 decode's own error.
C7_Rejects ==
    pc = "parsed" =>
        LET r == decode_bech32(HRP(net), text)
        IN  /\ ( /\ ~StartsWith(text, HRP(net))
                 /\ ~decode_base58(PKH_VERSION(net), text).ok
                 /\ ~decode_base58(SH_VERSION(net), text).ok )
                    => IsErr(parsed, "UnknownScriptType")
            /\ (StartsWith(text, HRP(net)) /\ r.ok /\ Len(r.val) \notin {22, 34})
                    => IsErr(parsed, "UnknownScriptType")
            /\ (StartsWith(text, HRP(net)) /\ ~r.ok)
                    => (~parsed.ok /\ parsed.err = r.err)

C7_Witness ==
    /\ pc = "parsed"
    /\ net = "Main"
    /\ StartsWith(text, <<"b", "c", "1", "0", "p", "u", "8">>)
    /\ Len(text) = 28
    /\ IsErr(parsed, "UnknownScriptType")

\* C8 as stated: under the HRP prefix and a successful bech32 decode, 20
\* decoded bytes give Wpkh, 32 give Wsh, any other length is unclassifiable.
C8_Lengths20And32 ==
    (pc = "parsed" /\ StartsWith(text, HRP(net))
                   /\ decode_bech32(HRP(net), text).ok) =>
        LET n == Len(decode_bech32(HRP(net), text).val)
        IN  /\ n = 20 => IsOk(parsed, Address("Wpkh", text))
            /\ n = 32 => IsOk(parsed, Address("Wsh", text))
            /\ n \notin {20, 32} => IsErr(parsed, "UnknownScriptType")

\* C8 amended: under the HRP prefix and a successful bech32 decode, the
\* variant is chosen by the length of the bytes the decode returned, version
\* byte and push-length byte included: 22 bytes (a 20-byte program) give
\* Wpkh, 34 bytes (a 32-byte program) give Wsh, any other length is
\* unclassifiable.
C8_Lengths22And34 ==
    (pc = "parsed" /\ StartsWith(text, HRP(net))
                   /\ decode_bech32(HRP(net), text).ok) =>
        LET n == Len(decode_bech32(HRP(net), text).val)
        IN  /\ n = 22 => IsOk(parsed, Address("Wpkh", text))
            /\ n = 34 => IsOk(parsed, Address("Wsh", text))
            /\ n \notin {22, 34} => IsErr(parsed, "UnknownScriptType")

C8_Witness ==
    /\ pc = "parsed"
    /\ net = "Test"
    /\ StartsWith(text, HRP("Test"))
    /\ parsed.ok
    /\ parsed.val.variant = "Wsh"
    /\ Len(decode_bech32(HRP("Test"), text).val) = 34

C10_BeHex ==
    /\ pc = "reversed" => Len(derived) = size(digest)
    /\ pc \in {"hexed", "unhexed"} =>
            hex = serialize_hex(Digest(digest.mark, Rev(digest.bytes)))
    /\ pc = "unhexed" => IsOk(back, digest)
    /\ pc = "rehexed" => derived = LowerText(hex)

C10_Witness ==
    /\ pc = "rehexed"
    /\ back.val.mark = "Hash256Digest"
    /\ hex # LowerText(hex)
    /\ Len(derived) = 64

\* C11: string_to_address dispatches on the prefix before any base58
\* attempt.  For text that starts with the HRP the only codec call is the
\* bech32 decode, which alone decides the outcome, its failure being returned
\* as its own error; base58check decoding, with the pkh version and then with
\* the sh version, is attempted only for text without the HRP prefix, and Sh
\* is returned only when the pkh-version decode failed.
C11_PrefixDispatch ==
    /\ (\E i \in 1..Len(calls) : calls[i] # "decode_bech32")
            => ~StartsWith(text, HRP(net))
    /\ (\E i \in 1..Len(calls) : calls[i] = "decode_bech32")
            => StartsWith(text, HRP(net))
    /\ pc = "sta_done" =>
        LET r == decode_bech32(HRP(net), text)
        IN  /\ StartsWith(text, HRP(net)) =>
                /\ calls = <<"decode_bech32">>
                /\ ~r.ok => (~parsed.ok /\ parsed.err = r.err)
                /\ r.ok => (parsed.ok <=> Len(r.val) \in {22, 34})
            /\ ~StartsWith(text, HRP(net)) =>
                /\ calls \in {<<"decode_base58_pkh">>,
                              <<"decode_base58_pkh", "decode_base58_sh">>}
                /\ (parsed.ok /\ parsed.val.variant = "Sh") =>
                    /\ calls = <<"decode_base58_pkh", "decode_base58_sh">>
                    /\ ~decode_base58(PKH_VERSION(net), text).ok
            /\ parsed = string_to_address(net, text)

\* a base58check address that starts with the HRP: only bech32 is called
C11_Witness ==
    /\ pc = "sta_done"
    /\ net = "Sig"
    /\ StartsWith(text, HRP("Sig"))
    /\ decode_base58(PKH_VERSION("Sig"), text).ok
    /\ calls = <<"decode_bech32">>
    /\ ~parsed.ok

\* C12: parse-then-re-encode round trip.  For each network and every text
\* for which string_to_address returns an Address a, decode_address(a) yields
\* a script that the classifier classifies as a's own variant, and
\* encode_address of that script returns Ok(a).
C12_ParseReEncode ==
    /\ pc \in {"parsed_decoded", "reencoded"} =>
            (decoded.ok /\ TypeOf(decoded.val) = parsed.val.variant)
    /\ pc = "reencoded" => IsOk(encoded, parsed.val)

====
